---- MODULE Spec2Model ----
(***************************************************************************)
(* Model of the transfer intake handler of go-api/main.go.                 *)
(*                                                                         *)
(* TransferHandler.ServeHTTP is run concurrently by net/http, one          *)
(* goroutine per request.  A call shares no memory with other calls; all   *)
(* shared state is the Redis store (h.rdb) and the queue (h.publisher).    *)
(* One call is therefore modelled as four atomic steps, cut at its three   *)
(* I/O operations:                                                          *)
(*   Receive      lines 43-60   method check, decode, validation           *)
(*   ExistsStep   lines 64-75   h.rdb.Exists                               *)
(*   PublishStep  lines 78-94   json.Marshal, NewMessage, Publish          *)
(*   SetStep      lines 97-105  h.rdb.Set, 202 response                    *)
(* Store and publisher operations may fail (err != nil); a failed          *)
(* operation has no effect on the store or the queue.  A key of the store  *)
(* written with a TTL may expire at any moment (Expire).                   *)
(*                                                                         *)
(* float64 amounts are represented by integers; json.Marshal cannot fail   *)
(* on a TransferRequest decoded from JSON (no NaN/Inf), so the error       *)
(* branch of lines 79-82 is never taken.                                   *)
(***************************************************************************)
EXTENDS Integers, Sequences, FiniteSets, TLC

VARIABLES calls, store, queue, uuidCount, store0, expired, overlapped

vars == <<calls, store, queue, uuidCount, store0, expired, overlapped>>

\* ---------------------------------------------------------------- bounds
MaxCalls == 2

Calls == 1..MaxCalls

\* ------------------------------------------------------------- constants
topicName == "transactions"

ProcessingMarker == "processing"

TTLHours == 24

StatusMethodNotAllowed == 405
StatusBadRequest == 400
StatusInternalServerError == 500
StatusOK == 200
StatusServiceUnavailable == 503
StatusAccepted == 202

\* ------------------------------------------------------------ JSON values
JStr(s) == [t |-> "str", s |-> s, n |-> 0]

JNum(n) == [t |-> "num", s |-> "", n |-> n]

Member(name, val) == [name |-> name, val |-> val]

\* A JSON text: either not well-formed, or an object with ordered members.
MalformedBody == [wellFormed |-> FALSE, members |-> <<>>]

Object(ms) == [wellFormed |-> TRUE, members |-> ms]

NoBody == Object(<<>>)

\* ------------------------------------------------------------ data model
ZeroRequest == [IdempotencyKey |-> "", SourceID |-> 0, TargetID |-> 0, Amount |-> 0]

\* encoding/json sets the struct field whose tag equals the member name;
\* a value of the wrong JSON type is an UnmarshalTypeError, an unknown
\* member is skipped, an absent member leaves the zero value.
SetField(acc, m) ==
    CASE m.name = "idempotency_key" ->
            IF m.val.t = "str" THEN [acc EXCEPT !.req.IdempotencyKey = m.val.s]
                               ELSE [acc EXCEPT !.err = TRUE]
      [] m.name = "source_id" ->
            IF m.val.t = "num" THEN [acc EXCEPT !.req.SourceID = m.val.n]
                               ELSE [acc EXCEPT !.err = TRUE]
      [] m.name = "target_id" ->
            IF m.val.t = "num" THEN [acc EXCEPT !.req.TargetID = m.val.n]
                               ELSE [acc EXCEPT !.err = TRUE]
      [] m.name = "amount" ->
            IF m.val.t = "num" THEN [acc EXCEPT !.req.Amount = m.val.n]
                               ELSE [acc EXCEPT !.err = TRUE]
      [] OTHER -> acc

RECURSIVE DecodeMembers(_, _)
DecodeMembers(ms, acc) ==
    IF ms = <<>> THEN acc
    ELSE DecodeMembers(Tail(ms), SetField(acc, Head(ms)))

\* json.NewDecoder(r.Body).Decode(&req) and json.Unmarshal(payload, &req)
Decode(body) ==
    IF ~body.wellFormed THEN [err |-> TRUE, req |-> ZeroRequest]
    ELSE DecodeMembers(body.members, [err |-> FALSE, req |-> ZeroRequest])

\* Marshal with the amount left out of the payload
Marshal_OmitsAmount(req) ==
    Object(<< Member("idempotency_key", JStr(req.IdempotencyKey)),
              Member("source_id", JNum(req.SourceID)),
              Member("target_id", JNum(req.TargetID)) >>)

\* json.Marshal(req): the four tagged fields in declaration order
Marshal(req) ==
    Object(<< Member("idempotency_key", JStr(req.IdempotencyKey)),
              Member("source_id", JNum(req.SourceID)),
              Member("target_id", JNum(req.TargetID)),
              Member("amount", JNum(req.Amount)) >>)

\* the validation with "<" in place of "<=": a zero amount passes
ValidParams_AllowsZero(req) ==
    ~(req.Amount < 0 \/ req.SourceID = req.TargetID \/ req.IdempotencyKey = "")

\* the validation without the comparison of the two parties
ValidParams_SkipsPartyCheck(req) ==
    ~(req.Amount <= 0 \/ req.IdempotencyKey = "")

\* the condition of line 55, negated
ValidParams(req) ==
    ~(req.Amount <= 0 \/ req.SourceID = req.TargetID \/ req.IdempotencyKey = "")

\* ------------------------------------------------------------ input space
Methods == {"POST", "GET"}

Keys == {"k1", "k2"}

TransferBody(k, s, t, a) ==
    Object(<< Member("idempotency_key", JStr(k)), Member("source_id", JNum(s)),
              Member("target_id", JNum(t)), Member("amount", JNum(a)) >>)

\* bodies that decode to a request passing validation; the last one lists
\* the members in another order and carries a member the struct does not have
ValidBodies ==
    {TransferBody(k, 1, 2, 1) : k \in Keys}
    \cup {Object(<< Member("amount", JNum(2)), Member("note", JStr("x")),
                    Member("target_id", JNum(1)), Member("source_id", JNum(2)),
                    Member("idempotency_key", JStr("k1")) >>)}

\* bodies that are rejected: not JSON, a member of the wrong JSON type, or
\* one parameter of a valid request made invalid
InvalidBodies ==
    {MalformedBody, NoBody,
     Object(<< Member("idempotency_key", JNum(7)), Member("source_id", JNum(1)),
               Member("target_id", JNum(2)), Member("amount", JNum(1)) >>),
     Object(<< Member("idempotency_key", JStr("k1")), Member("source_id", JNum(1)),
               Member("target_id", JNum(2)), Member("amount", JStr("1")) >>),
     TransferBody("k1", 1, 2, 0), TransferBody("k1", 1, 2, -1),
     TransferBody("k1", 1, 1, 1), TransferBody("", 1, 2, 1)}

Bodies == ValidBodies \cup InvalidBodies

\* ------------------------------------------------------------------ state
NoMsg == [UUID |-> 0, Payload |-> NoBody]

IdleCall ==
    [pc |-> "idle", method |-> "", body |-> NoBody, req |-> ZeroRequest,
     msg |-> NoMsg, code |-> 0, text |-> "", message_id |-> 0,
     ops |-> <<>>, liveAtStart |-> FALSE, lapsed |-> FALSE]

Entry(value, ttl) == [value |-> value, ttl |-> ttl]

\* the keys that may hold a claim left by an earlier run when the handler
\* is constructed (the duplicate test pre-fills one key)
PreExisting == {"k1"}

\* the store as a map from the keys that exist to their entries
StoreOf(ks) == [k \in ks |-> Entry(ProcessingMarker, TTLHours)]

Init ==
    /\ calls = [c \in Calls |-> IdleCall]
    /\ store \in {StoreOf(ks) : ks \in SUBSET PreExisting}
    /\ store0 = DOMAIN store
    /\ queue = <<>>
    /\ uuidCount = 0
    /\ expired = {}
    /\ overlapped = {}

InFlight(c) == calls[c].pc \in {"exists", "publish", "set"}

Op(op, key, ok) == [op |-> op, key |-> key, ok |-> ok]

\* http.Error / WriteHeader + Write: the call is finished with this response
Respond(call, code, text) ==
    [call EXCEPT !.pc = "done", !.code = code, !.text = text]

\* ------------------------------------------------- the handler's branches
\* lines 43-58: what the handler decides from the method and the body alone
AfterDecode(call, method, body) ==
    LET started == [call EXCEPT !.method = method]
        d == Decode(body)
    IN  IF method # "POST"
        THEN Respond(started, StatusMethodNotAllowed, "Method not allowed")
        ELSE IF d.err
        THEN Respond([started EXCEPT !.body = body], StatusBadRequest, "Invalid JSON")
        ELSE IF ~ValidParams(d.req)
        THEN Respond([started EXCEPT !.body = body, !.req = d.req],
                     StatusBadRequest, "Invalid request parameters")
        ELSE [started EXCEPT !.body = body, !.req = d.req, !.pc = "exists"]

\* the handler without the "exists > 0" branch
AfterExists_IgnoresExisting(call, ok, exists) ==
    IF ~ok
    THEN Respond(call, StatusInternalServerError, "Internal Server Error")
    ELSE [call EXCEPT !.pc = "publish"]

\* lines 65-75: the branches on the result of Exists
AfterExists(call, ok, exists) ==
    IF ~ok
    THEN Respond(call, StatusInternalServerError, "Internal Server Error")
    ELSE IF exists > 0
    THEN Respond(call, StatusOK, "duplicate_request_acknowledged")
    ELSE [call EXCEPT !.pc = "publish"]

\* the handler going on to the store write after a failed Publish
AfterPublish_IgnoresError(call, ok) == [call EXCEPT !.pc = "set"]

\* the handler holding the response back until the worker has reported
AfterPublish_AwaitsWorker(call, ok) ==
    IF ~ok
    THEN Respond(call, StatusServiceUnavailable, "Service Unavailable")
    ELSE [call EXCEPT !.pc = "await"]

\* lines 90-94: the branch on the result of Publish
AfterPublish(call, ok) ==
    IF ~ok
    THEN Respond(call, StatusServiceUnavailable, "Service Unavailable")
    ELSE [call EXCEPT !.pc = "set"]

\* the handler answering 500 when the Set fails
AfterSet_ErrorIsFatal(call, ok) ==
    IF ~ok
    THEN Respond(call, StatusInternalServerError, "Internal Server Error")
    ELSE [Respond(call, StatusAccepted, "accepted") EXCEPT !.message_id = call.msg.UUID]

\* the handler repeating the Set until it succeeds
AfterSet_RetriesWrite(call, ok) ==
    IF ~ok
    THEN call
    ELSE [Respond(call, StatusAccepted, "accepted") EXCEPT !.message_id = call.msg.UUID]

\* lines 98-105: a failed Set is only logged; the response is 202 either way
AfterSet(call, ok) ==
    [Respond(call, StatusAccepted, "accepted") EXCEPT !.message_id = call.msg.UUID]

\* --------------------------------------------------------------- actions
\* the handler writing the key as soon as the body is decoded, before the
\* parameters are validated
Receive_ClaimsFirst(c, method, body) ==
    /\ calls[c].pc = "idle"
    /\ IF c = 1 THEN TRUE ELSE calls[c - 1].pc # "idle"
    /\ LET next == AfterDecode(calls[c], method, body)
           key == next.req.IdempotencyKey
       IN  /\ calls' = [calls EXCEPT ![c] =
                  [next EXCEPT !.liveAtStart = (next.pc = "exists" /\ key \in DOMAIN store)]]
           /\ store' = IF key \in Keys
                       THEN [k \in DOMAIN store \cup {key} |->
                               IF k = key THEN Entry(ProcessingMarker, TTLHours)
                                          ELSE store[k]]
                       ELSE store
    /\ UNCHANGED <<queue, uuidCount, store0, expired, overlapped>>

\* lines 43-60: method check, body decoding, parameter validation
Receive(c, method, body) ==
    /\ calls[c].pc = "idle"
    /\ IF c = 1 THEN TRUE ELSE calls[c - 1].pc # "idle"
    /\ LET next == AfterDecode(calls[c], method, body)
           key == next.req.IdempotencyKey
       IN  /\ calls' = [calls EXCEPT ![c] =
                  [next EXCEPT !.liveAtStart = (next.pc = "exists" /\ key \in DOMAIN store)]]
           /\ overlapped' =
                  IF /\ next.pc = "exists"
                     /\ \E o \in Calls \ {c} :
                            InFlight(o) /\ calls[o].req.IdempotencyKey = key
                  THEN overlapped \cup {key}
                  ELSE overlapped
    /\ UNCHANGED <<store, queue, uuidCount, store0, expired>>

\* lines 64-75: h.rdb.Exists(ctx, req.IdempotencyKey)
ExistsStep(c, ok) ==
    /\ calls[c].pc = "exists"
    /\ LET key == calls[c].req.IdempotencyKey
           exists == IF key \in DOMAIN store THEN 1 ELSE 0
           logged == [calls[c] EXCEPT !.ops = Append(@, Op("Exists", key, ok))]
       IN  calls' = [calls EXCEPT ![c] = AfterExists(logged, ok, exists)]
    /\ UNCHANGED <<store, queue, uuidCount, store0, expired, overlapped>>

\* the publish with one identifier used for every message
PublishStep_ReusesMessageID(c, ok) ==
    /\ calls[c].pc = "publish"
    /\ LET payload == Marshal(calls[c].req)
           msg == [UUID |-> 1, Payload |-> payload]
           logged == [calls[c] EXCEPT !.msg = msg,
                          !.ops = Append(@, Op("Publish", topicName, ok))]
       IN  /\ uuidCount' = uuidCount + 1
           /\ queue' = IF ok
                       THEN Append(queue, [topic |-> topicName, UUID |-> msg.UUID,
                                           Payload |-> msg.Payload])
                       ELSE queue
           /\ calls' = [calls EXCEPT ![c] = AfterPublish(logged, ok)]
    /\ UNCHANGED <<store, store0, expired, overlapped>>

\* lines 78-94: json.Marshal, message.NewMessage(watermill.NewUUID(), payload),
\* h.publisher.Publish(topicName, msg)
PublishStep(c, ok) ==
    /\ calls[c].pc = "publish"
    /\ LET payload == Marshal(calls[c].req)
           msg == [UUID |-> uuidCount + 1, Payload |-> payload]
           logged == [calls[c] EXCEPT !.msg = msg,
                          !.ops = Append(@, Op("Publish", topicName, ok))]
       IN  /\ uuidCount' = uuidCount + 1
           /\ queue' = IF ok
                       THEN Append(queue, [topic |-> topicName, UUID |-> msg.UUID,
                                           Payload |-> msg.Payload])
                       ELSE queue
           /\ calls' = [calls EXCEPT ![c] = AfterPublish(logged, ok)]
    /\ UNCHANGED <<store, store0, expired, overlapped>>

\* the store write with another value than the marker
SetStep_WritesPending(c, ok) ==
    /\ calls[c].pc = "set"
    /\ LET key == calls[c].req.IdempotencyKey
           logged == [calls[c] EXCEPT !.ops = Append(@, Op("Set", key, ok))]
       IN  /\ store' = IF ok
                       THEN [k \in DOMAIN store \cup {key} |->
                               IF k = key THEN Entry("pending", TTLHours)
                                          ELSE store[k]]
                       ELSE store
           /\ calls' = [calls EXCEPT ![c] = AfterSet(logged, ok)]
    /\ UNCHANGED <<queue, uuidCount, store0, expired, overlapped>>

\* the store write without a TTL: the key never expires
SetStep_NoTTL(c, ok) ==
    /\ calls[c].pc = "set"
    /\ LET key == calls[c].req.IdempotencyKey
           logged == [calls[c] EXCEPT !.ops = Append(@, Op("Set", key, ok))]
       IN  /\ store' = IF ok
                       THEN [k \in DOMAIN store \cup {key} |->
                               IF k = key THEN Entry(ProcessingMarker, 0)
                                          ELSE store[k]]
                       ELSE store
           /\ calls' = [calls EXCEPT ![c] = AfterSet(logged, ok)]
    /\ UNCHANGED <<queue, uuidCount, store0, expired, overlapped>>

\* lines 97-105: h.rdb.Set(ctx, req.IdempotencyKey, "processing", 24*time.Hour),
\* then the 202 response
SetStep(c, ok) ==
    /\ calls[c].pc = "set"
    /\ LET key == calls[c].req.IdempotencyKey
           logged == [calls[c] EXCEPT !.ops = Append(@, Op("Set", key, ok))]
       IN  /\ store' = IF ok
                       THEN [k \in DOMAIN store \cup {key} |->
                               IF k = key THEN Entry(ProcessingMarker, TTLHours)
                                          ELSE store[k]]
                       ELSE store
           /\ calls' = [calls EXCEPT ![c] = AfterSet(logged, ok)]
    /\ UNCHANGED <<queue, uuidCount, store0, expired, overlapped>>

\* Redis removes a key whose TTL has run out; a call that has not yet made
\* its existence check for that key is marked (lapsed)
Expire(k) ==
    /\ k \in DOMAIN store
    /\ store[k].ttl > 0
    /\ store' = [x \in DOMAIN store \ {k} |-> store[x]]
    /\ expired' = expired \cup {k}
    /\ calls' = [c \in Calls |->
                  IF calls[c].pc = "exists" /\ calls[c].req.IdempotencyKey = k
                  THEN [calls[c] EXCEPT !.lapsed = TRUE]
                  ELSE calls[c]]
    /\ UNCHANGED <<queue, uuidCount, store0, overlapped>>

Next ==
    \/ \E c \in Calls, method \in Methods, body \in Bodies : Receive(c, method, body)
    \/ \E c \in Calls, ok \in BOOLEAN : ExistsStep(c, ok)
    \/ \E c \in Calls, ok \in BOOLEAN : PublishStep(c, ok)
    \/ \E c \in Calls, ok \in BOOLEAN : SetStep(c, ok)
    \/ \E k \in Keys : Expire(k)

Spec == Init /\ [][Next]_vars

\* ------------------------------------------------- vocabulary of the claims
Started(c) == calls[c].pc # "idle"

Done(c) == calls[c].pc = "done"

\* the TransferRequest the handler decoded from the body of call c
Submitted(c) == calls[c].req

\* a POST whose request passed validation: positive amount, two different
\* parties, a key (a body that does not parse leaves the zero request)
ValidSubmit(c) ==
    /\ Started(c)
    /\ calls[c].method = "POST"
    /\ Submitted(c).Amount > 0
    /\ Submitted(c).SourceID # Submitted(c).TargetID
    /\ Submitted(c).IdempotencyKey # ""

KeyOf(c) == Submitted(c).IdempotencyKey

Did(c, op) == \E i \in DOMAIN calls[c].ops : calls[c].ops[i].op = op

Failed(c, op) ==
    \E i \in DOMAIN calls[c].ops : calls[c].ops[i].op = op /\ ~calls[c].ops[i].ok

NoFailure(c) == \A i \in DOMAIN calls[c].ops : calls[c].ops[i].ok

Accepted(c) == Done(c) /\ calls[c].code = StatusAccepted

Duplicate(c) ==
    /\ Done(c)
    /\ calls[c].code = StatusOK
    /\ calls[c].text = "duplicate_request_acknowledged"

\* positions of the queue holding a message for key k
MessagesFor(k) ==
    {i \in DOMAIN queue : Decode(queue[i].Payload).req.IdempotencyKey = k}

\* positions of the queue holding the message that call c created
MessagesOf(c) == {i \in DOMAIN queue : queue[i].UUID = calls[c].msg.UUID}

SubmitsFor(k) == {c \in Calls : ValidSubmit(c) /\ KeyOf(c) = k}

\* ------------------------------------------------------------------ claims
\* C1: N valid submits with the same key, key absent at the outset, no
\* failure and no expiry, in any interleaving: once all have returned, exactly
\* one was Accepted, the others Duplicate, and exactly one message was
\* published for the key.
C1_ExactlyOneAccepted ==
    \A k \in Keys :
        LET S == SubmitsFor(k) IN
        ( /\ S # {}
          /\ \A c \in S : Done(c) /\ NoFailure(c)
          /\ k \notin store0
          /\ k \notin expired )
        => /\ Cardinality({c \in S : Accepted(c)}) = 1
           /\ Cardinality({c \in S : Duplicate(c)}) = Cardinality(S) - 1
           /\ Cardinality(MessagesFor(k)) = 1

\* C2 as stated: a valid submit whose key has a live claim when the call
\* starts returns Duplicate, never publishes and writes nothing.
C2_Original ==
    \A c \in Calls :
        (Done(c) /\ ValidSubmit(c) /\ calls[c].liveAtStart)
        => /\ Duplicate(c)
           /\ ~Did(c, "Publish")
           /\ ~Did(c, "Set")

\* C2 amended: a valid submit whose key has a live claim when the call starts,
\* a claim that does not expire before the call's existence check, returns
\* Duplicate if the check succeeds and 500 if it fails; either way it never
\* publishes and writes nothing, whatever the other fields of the request are.
C2_DuplicateOnLiveClaim ==
    \A c \in Calls :
        (Done(c) /\ ValidSubmit(c) /\ calls[c].liveAtStart /\ ~calls[c].lapsed)
        => /\ IF Failed(c, "Exists")
              THEN calls[c].code = StatusInternalServerError
              ELSE Duplicate(c) /\ calls[c].code # StatusAccepted
           /\ ~Did(c, "Publish")
           /\ ~Did(c, "Set")
           /\ MessagesOf(c) = {}

\* a Duplicate answer to a request that differs from the accepted one in
\* every field but the key
C2_Witness ==
    \E c, d \in Calls :
        /\ c # d
        /\ Accepted(d) /\ Duplicate(c)
        /\ calls[c].liveAtStart /\ ~calls[c].lapsed /\ KeyOf(c) = KeyOf(d)
        /\ Submitted(c).SourceID # Submitted(d).SourceID
        /\ Submitted(c).Amount # Submitted(d).Amount

\* C3: a valid submit with a key that has no claim, alone on its key and
\* with no failure, is Accepted, publishes exactly one message on the fixed
\* topic, and the payload decodes to the submitted request.
C3_FreshAccepted ==
    \A c \in Calls :
        ( /\ Done(c) /\ ValidSubmit(c) /\ NoFailure(c)
          /\ ~calls[c].liveAtStart
          /\ SubmitsFor(KeyOf(c)) = {c} )
        => /\ Accepted(c)
           /\ Cardinality(MessagesOf(c)) = 1
           /\ MessagesFor(KeyOf(c)) = MessagesOf(c)
           /\ \A i \in MessagesOf(c) :
                 /\ queue[i].topic = "transactions"
                 /\ Decode(queue[i].Payload) = [err |-> FALSE, req |-> Submitted(c)]

C3_Witness ==
    \E c \in Calls :
        /\ Accepted(c) /\ NoFailure(c) /\ ~calls[c].liveAtStart
        /\ SubmitsFor(KeyOf(c)) = {c}
        /\ \E i \in MessagesOf(c) :
              Decode(queue[i].Payload).req =
                  [IdempotencyKey |-> "k1", SourceID |-> 2, TargetID |-> 1, Amount |-> 2]

\* C4: after a submit that returns Accepted with a successful store write, the
\* store holds a status record "pending" under a key other than the claim key.
C4_PendingStatusRecord ==
    \A c \in Calls :
        (Accepted(c) /\ NoFailure(c) /\ expired = {})
        => \E sk \in DOMAIN store : sk # KeyOf(c) /\ store[sk].value = "pending"

\* C5: a POST is answered 400 exactly when its body does not parse, or
\* amount <= 0, or sourceID = targetID, or the key is empty; every other POST
\* goes on to the dedup step.
C5_RejectedIff ==
    \A c \in Calls :
        (Started(c) /\ calls[c].method = "POST")
        => LET d == Decode(calls[c].body)
               bad == \/ d.err
                      \/ d.req.Amount <= 0
                      \/ d.req.SourceID = d.req.TargetID
                      \/ d.req.IdempotencyKey = ""
           IN  /\ (Done(c) /\ calls[c].code = StatusBadRequest) <=> bad
               /\ ~bad => \/ calls[c].pc = "exists"
                          \/ (calls[c].ops # <<>> /\ calls[c].ops[1].op = "Exists")

C5_Witness ==
    \E c, d \in Calls :
        /\ calls[c].code = StatusBadRequest /\ calls[c].body = TransferBody("k1", 1, 2, 0)
        /\ calls[d].method = "POST" /\ calls[d].pc = "exists"

\* C6: a submit that ends in Rejected (400) has read no key, and the step
\* that rejects it leaves the store and the queue as they were.
C6_RejectedNoEffect ==
    [][\A c \in Calls :
          (calls[c].pc = "idle" /\ calls'[c].pc = "done"
             /\ calls'[c].code = StatusBadRequest)
          => /\ store' = store
             /\ queue' = queue
             /\ calls'[c].ops = <<>>]_vars

\* a rejected call beside a store and a queue that are not empty
C6_Witness ==
    \E c \in Calls :
        /\ Done(c) /\ calls[c].code = StatusBadRequest /\ calls[c].ops = <<>>
        /\ calls[c].body = TransferBody("k1", 1, 1, 1)
        /\ "k1" \in DOMAIN store
        /\ queue # <<>>

\* C7: a submit whose publish fails returns 503, never Accepted, and makes no
\* store write; a submit is Accepted only if its own publish succeeded and
\* its message is in the queue.
C7_PublishFailureUnavailable ==
    \A c \in Calls :
        /\ Failed(c, "Publish")
             => /\ Done(c)
                /\ calls[c].code = StatusServiceUnavailable
                /\ ~Did(c, "Set")
                /\ MessagesOf(c) = {}
        /\ Accepted(c)
             => /\ \E i \in DOMAIN calls[c].ops :
                       calls[c].ops[i].op = "Publish" /\ calls[c].ops[i].ok
                /\ MessagesOf(c) # {}

C7_Witness ==
    \E c, d \in Calls :
        /\ Failed(c, "Publish") /\ calls[c].code = StatusServiceUnavailable
        /\ Accepted(d)

\* C8: a failed existence check gives a server error, no publish and no
\* write; and for a key whose submits ran one after the other, one of them
\* with a store failure, at most one message is ever published.
C8_StoreFailureRetrySafe ==
    /\ \A c \in Calls :
          Failed(c, "Exists")
          => /\ Done(c)
             /\ calls[c].code = StatusInternalServerError
             /\ ~Did(c, "Publish")
             /\ ~Did(c, "Set")
    /\ \A k \in Keys :
          ( /\ \E c \in SubmitsFor(k) : Failed(c, "Exists") \/ Failed(c, "Set")
            /\ k \notin overlapped
            /\ k \notin expired )
          => Cardinality(MessagesFor(k)) <= 1

\* C9: a submit whose store write fails after the publish is still Accepted,
\* with the identifier of the message it published, and that message is in
\* the queue as published.
C9_SetFailureStillAccepted ==
    \A c \in Calls :
        Failed(c, "Set")
        => /\ Accepted(c)
           /\ calls[c].text = "accepted"
           /\ Cardinality(MessagesOf(c)) = 1
           /\ \A i \in MessagesOf(c) :
                 /\ queue[i].UUID = calls[c].message_id
                 /\ Decode(queue[i].Payload).req = Submitted(c)

C9_Witness ==
    \E c \in Calls : Failed(c, "Set") /\ Accepted(c) /\ KeyOf(c) \notin DOMAIN store

\* C10: within a call a publish comes only after that call has created the
\* claim for its key, and a store write after the publish is not a write of
\* the claim key.
C10_ClaimThenPublishThenStatus ==
    \A c \in Calls :
        \A i \in DOMAIN calls[c].ops :
            calls[c].ops[i].op = "Publish"
            => /\ \E j \in 1..(i - 1) :
                     /\ calls[c].ops[j].op = "Set"
                     /\ calls[c].ops[j].key = calls[c].req.IdempotencyKey
                     /\ calls[c].ops[j].ok
               /\ \A j \in (i + 1)..Len(calls[c].ops) :
                     calls[c].ops[j].op = "Set"
                     => calls[c].ops[j].key # calls[c].req.IdempotencyKey

\* C11: when a submit's store write succeeds and it returns Accepted, the
\* store then holds the request's idempotency key itself with the value
\* "processing".
C11_ProcessingMarkerStored ==
    [][\A c \in Calls :
          ( /\ calls[c].pc = "set"
            /\ calls'[c].pc = "done"
            /\ calls'[c].code = StatusAccepted
            /\ calls'[c].ops[Len(calls'[c].ops)].ok )
          => /\ Submitted(c).IdempotencyKey \in DOMAIN store'
             /\ store'[Submitted(c).IdempotencyKey].value = "processing"]_vars

\* an Accepted call whose write succeeded, its key in the store
C11_Witness ==
    \E c \in Calls :
        /\ Accepted(c) /\ NoFailure(c) /\ Did(c, "Set")
        /\ KeyOf(c) = "k2" /\ "k2" \in DOMAIN store
        /\ store["k2"].value = "processing"

C13_AtMostOneOfEach ==
    \A c \in Calls :
        LET ops == calls[c].ops
            claimWrites == {i \in DOMAIN ops :
                              ops[i].op = "Set" /\ ops[i].key = calls[c].req.IdempotencyKey}
            statusWrites == {i \in DOMAIN ops :
                              ops[i].op = "Set" /\ ops[i].key # calls[c].req.IdempotencyKey}
            publishes == {i \in DOMAIN ops : ops[i].op = "Publish"}
        IN  /\ Cardinality(claimWrites) <= 1
            /\ Cardinality(publishes) <= 1
            /\ Cardinality(statusWrites) <= 1
            /\ Cardinality(MessagesOf(c)) <= 1

\* a call that made its one publish and its one claim write
C13_Witness ==
    \E c \in Calls :
        /\ Done(c)
        /\ Cardinality({i \in DOMAIN calls[c].ops : calls[c].ops[i].op = "Publish"}) = 1
        /\ Cardinality({i \in DOMAIN calls[c].ops : calls[c].ops[i].op = "Set"}) = 1
        /\ Cardinality(MessagesOf(c)) = 1

\* C14: the message_id of an Accepted response is the identifier of the
\* message that same call put in the queue, and no two calls that publish
\* use the same identifier, also when their idempotency keys are equal
\* (watermill.NewUUID is taken to return a value it has not returned before).
C14_FreshMessageID ==
    /\ \A c \in Calls :
          Accepted(c)
          => \E i \in MessagesOf(c) :
                 /\ queue[i].UUID = calls[c].message_id
                 /\ Decode(queue[i].Payload).req = Submitted(c)
    /\ \A i, j \in DOMAIN queue : i # j => queue[i].UUID # queue[j].UUID
    /\ \A c, d \in Calls :
          (c # d /\ Did(c, "Publish") /\ Did(d, "Publish"))
          => calls[c].msg.UUID # calls[d].msg.UUID

\* two Accepted calls with the same key and different message identifiers
C14_Witness ==
    \E c, d \in Calls :
        /\ c # d /\ Accepted(c) /\ Accepted(d)
        /\ KeyOf(c) = KeyOf(d)
        /\ calls[c].message_id # calls[d].message_id
        /\ \E i, j \in DOMAIN queue :
              /\ queue[i].UUID = calls[c].message_id
              /\ queue[j].UUID = calls[d].message_id

\* ---------------------------------------------------------------- fairness
\* The steps of a call after Receive are the returns of its store and
\* publisher calls; each of them returns eventually.
StepOf(c) ==
    \E ok \in BOOLEAN : ExistsStep(c, ok) \/ PublishStep(c, ok) \/ SetStep(c, ok)

FairSpec == Spec /\ \A c \in Calls : WF_vars(StepOf(c))

Outcomes ==
    {StatusAccepted, StatusOK, StatusBadRequest, StatusServiceUnavailable,
     StatusInternalServerError}

\* C15: once its store and publisher calls return, every submit ends with
\* exactly one of the outcomes Accepted, Duplicate, Rejected, Unavailable or
\* server error; it needs no step of anything else to get there, makes each
\* of its calls at most once and stops at the first one that fails unless
\* that is the final store write.
C15_TerminatesWithOneOutcome ==
    /\ \A c \in Calls : []<>(~Started(c) \/ Done(c))
    /\ [](\A c \in Calls :
             (Done(c) /\ calls[c].method = "POST")
             => /\ calls[c].code \in Outcomes
                /\ (calls[c].code = StatusAccepted) <=> (calls[c].text = "accepted")
                /\ (calls[c].code = StatusOK)
                       <=> (calls[c].text = "duplicate_request_acknowledged"))
    /\ [](\A c \in Calls :
             LET ops == calls[c].ops IN
             /\ Len(ops) <= 3
             /\ \A i \in DOMAIN ops :
                   /\ ops[i].op = <<"Exists", "Publish", "Set">>[i]
                   /\ ~ops[i].ok => (i = Len(ops) /\ Done(c)))

\* one call ended by a failed store call and one by a failed publish, each
\* after a single attempt
C15_Witness ==
    \E c, d \in Calls :
        /\ Done(c) /\ calls[c].code = StatusInternalServerError /\ Len(calls[c].ops) = 1
        /\ Done(d) /\ calls[d].code = StatusServiceUnavailable /\ Len(calls[d].ops) = 2

\* C16: after a submit whose publish failed, on a key with no claim when the
\* call started and no other submit on it so far, the store holds no claim
\* for the key; a retry made after it therefore finds the key absent, is not
\* answered Duplicate, and is Accepted if nothing fails.
C16_PublishFailureLeavesNoClaim ==
    \A c \in Calls :
        (Failed(c, "Publish") /\ ~calls[c].liveAtStart /\ KeyOf(c) \notin overlapped)
        => /\ SubmitsFor(KeyOf(c)) = {c} => KeyOf(c) \notin DOMAIN store
           /\ \A d \in Calls :
                 (c < d /\ SubmitsFor(KeyOf(c)) = {c, d})
                 => /\ ~calls[d].liveAtStart
                    /\ ~Duplicate(d)
                    /\ (Done(d) /\ NoFailure(d)) => Accepted(d)

\* a publish failure followed by an Accepted retry with the same key, the
\* key never having expired
C16_Witness ==
    \E c, d \in Calls :
        /\ c < d
        /\ Failed(c, "Publish") /\ ~calls[c].liveAtStart
        /\ KeyOf(c) = KeyOf(d) /\ KeyOf(c) \notin overlapped
        /\ expired = {}
        /\ Accepted(d) /\ NoFailure(d)

\* C17: a submit that has returned Accepted for key k has left a claim for k
\* in the store, there as long as k has not expired: no Accepted call's key
\* is absent for a following submit.
C17_AcceptedLeavesClaim ==
    \A c \in Calls :
        (Accepted(c) /\ KeyOf(c) \notin expired)
        => /\ KeyOf(c) \in DOMAIN store
           /\ MessagesOf(c) # {}

\* C18: a successful store write by the handler for key k happens only when
\* k is absent from the store at the moment of the write.
C18_WritesOnlyWhenAbsent ==
    [][\A c \in Calls :
          ( /\ calls[c].pc = "set"
            /\ calls'[c].pc = "done"
            /\ calls'[c].ops[Len(calls'[c].ops)].op = "Set"
            /\ calls'[c].ops[Len(calls'[c].ops)].ok )
          => calls[c].req.IdempotencyKey \notin DOMAIN store]_vars

\* C19: every message in the queue and every key the handler wrote to the
\* store comes from a POST whose body parses to a request with amount > 0,
\* sourceID # targetID and a non-empty idempotencyKey.
C19_OnlyValidatedRequests ==
    /\ \A i \in DOMAIN queue :
          LET m == Decode(queue[i].Payload) IN
          /\ ~m.err
          /\ m.req.Amount > 0
          /\ m.req.SourceID # m.req.TargetID
          /\ m.req.IdempotencyKey # ""
          /\ \E c \in Calls : i \in MessagesOf(c) /\ Decode(calls[c].body).req = m.req
    /\ \A c \in Calls :
          calls[c].ops # <<>>
          => LET d == Decode(calls[c].body) IN
             /\ calls[c].method = "POST"
             /\ ~d.err
             /\ d.req.Amount > 0
             /\ d.req.SourceID # d.req.TargetID
             /\ d.req.IdempotencyKey # ""
             /\ \A i \in DOMAIN calls[c].ops :
                   calls[c].ops[i].op # "Publish"
                   => calls[c].ops[i].key = d.req.IdempotencyKey
    /\ \A k \in DOMAIN store :
          \/ k \in store0
          \/ \E c \in Calls :
                /\ ValidSubmit(c) /\ KeyOf(c) = k
                /\ \E i \in DOMAIN calls[c].ops :
                      calls[c].ops[i].op = "Set" /\ calls[c].ops[i].ok

\* rejected requests beside a published message and a written key
C19_Witness ==
    \E c, d \in Calls :
        /\ Done(c) /\ calls[c].code = StatusBadRequest
        /\ calls[c].body = TransferBody("k1", 1, 2, -1)
        /\ Accepted(d) /\ NoFailure(d)
        /\ KeyOf(d) \in DOMAIN store /\ KeyOf(d) \notin store0
        /\ Len(queue) = 1

====
